---- MODULE Spec2Model ----
(***************************************************************************)
(* A model of the Spine trace of src/trace/implementations/spine.rs: an    *)
(* append-only collection of update batches held in two tiers (merging and *)
(* pending) and governed by three frontiers.  A batch is abstracted to its *)
(* lower and upper frontier and its number of tuples.                      *)
(***************************************************************************)
EXTENDS Integers, Sequences, FiniteSets, TLC

\* ------------------------------------------------------------------ bounds
\* Largest time a caller uses.
MaxT == 2
\* Largest number of tuples of a batch handed to insert.
MaxLen == 3

\* usize::max_value(), the fuel handed to every merge, at the width of the
\* model's integers.
UsizeMax == 2147483647

\* ------------------------------------------------------- times, frontiers
\* T: the timestamps, here the totally ordered 0..MaxT.
Time == 0..MaxT

\* <T as Lattice>::minimum()
minimum == 0

\* Lattice::less_equal
less_equal(t2, t1) == t2 <= t1

\* The frontiers a caller passes, each a Vec<T> holding an antichain of
\* Time: the empty frontier or a single time.
Frontiers == {<<>>} \cup {<<t>> : t \in Time}

\* upper.iter().all(|t1| frontier.iter().any(|t2| t2.less_equal(t1))):
\* every time of `upper` is at or beyond some time of `frontier`.
GreaterEqual(upper, frontier) ==
    \A i \in DOMAIN upper : \E j \in DOMAIN frontier : less_equal(frontier[j], upper[i])

\* ----------------------------------------------------------------- batches
\* A batch covers the times [lower, upper) and holds len tuples.  The ones a
\* caller hands to insert (Inputs) have upper at or beyond lower.
Batches ==
    {[lower |-> l, upper |-> u, len |-> n] :
        l \in Frontiers, u \in Frontiers, n \in 0..MaxLen}

WellFormed(b) == GreaterEqual(b.upper, b.lower)

Inputs == {b \in Batches : WellFormed(b)}

None == [some |-> FALSE, val |-> <<>>]
Some(f) == [some |-> TRUE, val |-> f]


\* ------------------------------------------------------------------ state
VARIABLES
    advance_frontier,   \* times after which the trace must accumulate correctly
    through_frontier,   \* times after which the trace must subset its inputs
    merging,            \* the size-ordered tier
    pending,            \* the batches in advance of through_frontier
    upper,              \* upper frontier of the most recently introduced batch
    op,                 \* the last call made and its argument
    ret,                \* what the last call returned, or that it panicked
    pre,                \* the fields of the Spine as the last call found them
    accepted,           \* history: tuples of the batches pushed by insert while
                        \* advance_frontier had never moved (0 once it has)
    stayed_min,         \* history: advance_frontier was never moved off minimum
    merged              \* history: the merges the last call performed, in order

spine == <<advance_frontier, through_frontier, merging, pending, upper>>
vars == <<advance_frontier, through_frontier, merging, pending, upper,
          op, ret, pre, accepted, stayed_min, merged>>

Fields ==
    [advance_frontier |-> advance_frontier, through_frontier |-> through_frontier,
     merging |-> merging, pending |-> pending, upper |-> upper]

NoBatch == [lower |-> <<>>, upper |-> <<>>, len |-> 0]
Call(name, frontier, batch) == [name |-> name, frontier |-> frontier, batch |-> batch]
Returned(kind, storage) == [kind |-> kind, why |-> "", storage |-> storage]
Panicked(why) == [kind |-> "abort", why |-> why, storage |-> <<>>]

\* ------------------------------------------------------------------ Merger
\* The lengths a merge of a and b tuples can produce: the exact union
\* without a frontier (or with one that no time lies before), anything down
\* to nothing when times are consolidated.
MergedLens(a, b, frontier) ==
    IF frontier.some /\ frontier.val # <<minimum>> THEN 0..(a + b) ELSE {a + b}

\* begin_merge / work / done on the older batch2 and the newer batch1: the
\* possible results and the fuel left of the UsizeMax handed in.
work(batch2, batch1, frontier) ==
    {[batch |-> [lower |-> batch2.lower, upper |-> batch1.upper, len |-> n],
      fuel |-> UsizeMax - (batch2.len + batch1.len)] :
        n \in MergedLens(batch2.len, batch1.len, frontier)}

\* ---------------------------------------------------------- consider_merges
Tier(m, panicked) == [merging |-> m, panicked |-> panicked, log |-> <<>>]

\* One merge: the loop it ran in, the entries of merging left below the two
\* batches popped, the frontier handed to work, the batches and the fuel left.
Merge(loop, rest, frontier, batch2, batch1, r) ==
    [loop |-> loop, below |-> Len(rest), frontier |-> frontier,
     older |-> batch2, newer |-> batch1, out |-> r.batch, fuel |-> r.fuel]

\* The outcomes S of the rest of a loop, after the merge e.
After(e, S) == {[t EXCEPT !.log = <<e>> \o @] : t \in S}

\* Pre-absorption that pops the two batches but pushes only the newer one
\* back.
RECURSIVE PreAbsorb_lost(_, _)
PreAbsorb_lost(m, batch) ==
    IF Len(m) >= 2 /\ m[Len(m) - 1].len < batch.len
    THEN PreAbsorb_lost(Append(SubSeq(m, 1, Len(m) - 2), m[Len(m)]), batch)
    ELSE {Tier(m, FALSE)}

\* Pre-absorption that aborts on a merge that consumed no fuel.
RECURSIVE PreAbsorb_consumed(_, _)
PreAbsorb_consumed(m, batch) ==
    IF Len(m) >= 2 /\ m[Len(m) - 1].len < batch.len
    THEN LET batch1 == m[Len(m)]
             batch2 == m[Len(m) - 1]
             rest == SubSeq(m, 1, Len(m) - 2)
         IN UNION {After(Merge("pre", rest, None, batch2, batch1, r),
                         IF r.fuel < UsizeMax
                         THEN PreAbsorb_consumed(Append(rest, r.batch), batch)
                         ELSE {Tier(rest, TRUE)}) : r \in work(batch2, batch1, None)}
    ELSE {Tier(m, FALSE)}

\* while self.merging.len() >= 2 && merging[len - 2].len() < batch.len()
RECURSIVE PreAbsorb(_, _)
PreAbsorb(m, batch) ==
    IF Len(m) >= 2 /\ m[Len(m) - 1].len < batch.len
    THEN LET batch1 == m[Len(m)]
             batch2 == m[Len(m) - 1]
             rest == SubSeq(m, 1, Len(m) - 2)
         IN UNION {After(Merge("pre", rest, None, batch2, batch1, r),
                         IF r.fuel > 0
                         THEN PreAbsorb(Append(rest, r.batch), batch)
                         ELSE {Tier(rest, TRUE)}) : r \in work(batch2, batch1, None)}
    ELSE {Tier(m, FALSE)}

\* Cascade handing advance_frontier to every merge.
RECURSIVE Cascade_consolidating(_, _)
Cascade_consolidating(m, adv) ==
    IF Len(m) >= 2 /\ m[Len(m) - 1].len < 2 * m[Len(m)].len
    THEN LET batch1 == m[Len(m)]
             batch2 == m[Len(m) - 1]
             rest == SubSeq(m, 1, Len(m) - 2)
             frontier == Some(adv)
         IN UNION {After(Merge("cascade", rest, frontier, batch2, batch1, r),
                         IF r.fuel > 0
                         THEN Cascade_consolidating(Append(rest, r.batch), adv)
                         ELSE {Tier(rest, TRUE)}) : r \in work(batch2, batch1, frontier)}
    ELSE {Tier(m, FALSE)}

\* Cascade taking the two batches popped in the other order.
RECURSIVE Cascade_swapped(_, _)
Cascade_swapped(m, adv) ==
    IF Len(m) >= 2 /\ m[Len(m) - 1].len < 2 * m[Len(m)].len
    THEN LET batch1 == m[Len(m) - 1]
             batch2 == m[Len(m)]
             rest == SubSeq(m, 1, Len(m) - 2)
             frontier == IF Len(rest) = 0 THEN Some(adv) ELSE None
         IN UNION {After(Merge("cascade", rest, frontier, batch2, batch1, r),
                         IF r.fuel > 0
                         THEN Cascade_swapped(Append(rest, r.batch), adv)
                         ELSE {Tier(rest, TRUE)}) : r \in work(batch2, batch1, frontier)}
    ELSE {Tier(m, FALSE)}

\* Cascade that does not push the merged batch back.
RECURSIVE Cascade_unpushed(_, _)
Cascade_unpushed(m, adv) ==
    IF Len(m) >= 2 /\ m[Len(m) - 1].len < 2 * m[Len(m)].len
    THEN LET batch1 == m[Len(m)]
             batch2 == m[Len(m) - 1]
             rest == SubSeq(m, 1, Len(m) - 2)
             frontier == IF Len(rest) = 0 THEN Some(adv) ELSE None
         IN UNION {After(Merge("cascade", rest, frontier, batch2, batch1, r),
                         IF r.fuel > 0
                         THEN Cascade_unpushed(rest, adv)
                         ELSE {Tier(rest, TRUE)}) : r \in work(batch2, batch1, frontier)}
    ELSE {Tier(m, FALSE)}

\* Cascade comparing the two lengths without doubling the newer one.
RECURSIVE Cascade_undoubled(_, _)
Cascade_undoubled(m, adv) ==
    IF Len(m) >= 2 /\ m[Len(m) - 1].len < m[Len(m)].len
    THEN LET batch1 == m[Len(m)]
             batch2 == m[Len(m) - 1]
             rest == SubSeq(m, 1, Len(m) - 2)
             frontier == IF Len(rest) = 0 THEN Some(adv) ELSE None
         IN UNION {After(Merge("cascade", rest, frontier, batch2, batch1, r),
                         IF r.fuel > 0
                         THEN Cascade_undoubled(Append(rest, r.batch), adv)
                         ELSE {Tier(rest, TRUE)}) : r \in work(batch2, batch1, frontier)}
    ELSE {Tier(m, FALSE)}

\* while len >= 2 && merging[len - 2].len() < 2 * merging[len - 1].len()
RECURSIVE Cascade(_, _)
Cascade(m, adv) ==
    IF Len(m) >= 2 /\ m[Len(m) - 1].len < 2 * m[Len(m)].len
    THEN LET batch1 == m[Len(m)]
             batch2 == m[Len(m) - 1]
             rest == SubSeq(m, 1, Len(m) - 2)
             frontier == IF Len(rest) = 0 THEN Some(adv) ELSE None
         IN UNION {After(Merge("cascade", rest, frontier, batch2, batch1, r),
                         IF r.fuel > 0
                         THEN Cascade(Append(rest, r.batch), adv)
                         ELSE {Tier(rest, TRUE)}) : r \in work(batch2, batch1, frontier)}
    ELSE {Tier(m, FALSE)}

Tiers(m, p, panicked) ==
    [merging |-> m, pending |-> p, panicked |-> panicked, log |-> <<>>]

\* The outcomes S of the rest of a pass, after the merges of log.
Then(log, S) == {[t EXCEPT !.log = log \o @] : t \in S}

\* A pass that stops after the oldest pending batch.
consider_merges_once(m, p, through, adv) ==
    IF Len(p) > 0 /\ GreaterEqual(through, p[1].upper)
    THEN LET batch == p[1]
             rest == Tail(p)
         IN UNION {IF a.panicked
                   THEN Then(a.log, {Tiers(a.merging, rest, TRUE)})
                   ELSE UNION {Then(a.log \o c.log,
                                    {Tiers(c.merging, rest, c.panicked)}) :
                                   c \in Cascade(Append(a.merging, batch), adv)} :
                       a \in PreAbsorb(m, batch)}
    ELSE {Tiers(m, p, FALSE)}

\* Migrate data from pending into merging: the possible outcomes of a pass
\* started with tiers m and p.
RECURSIVE consider_merges(_, _, _, _)
consider_merges(m, p, through, adv) ==
    IF Len(p) > 0 /\ GreaterEqual(through, p[1].upper)
    THEN LET batch == p[1]
             rest == Tail(p)
         IN UNION {IF a.panicked
                   THEN Then(a.log, {Tiers(a.merging, rest, TRUE)})
                   ELSE UNION {Then(a.log \o c.log,
                                    IF c.panicked
                                    THEN {Tiers(c.merging, rest, TRUE)}
                                    ELSE consider_merges(c.merging, rest, through, adv)) :
                                   c \in Cascade(Append(a.merging, batch), adv)} :
                       a \in PreAbsorb(m, batch)}
    ELSE {Tiers(m, p, FALSE)}

\* ----------------------------------------------------------------- new()
Init ==
    /\ advance_frontier = <<minimum>>
    /\ through_frontier = <<minimum>>
    /\ merging = <<>>
    /\ pending = <<>>
    /\ upper = <<minimum>>
    /\ op = Call("new", <<>>, NoBatch)
    /\ ret = Returned("ok", <<>>)
    /\ pre = [advance_frontier |-> <<minimum>>, through_frontier |-> <<minimum>>,
              merging |-> <<>>, pending |-> <<>>, upper |-> <<minimum>>]
    /\ accepted = 0
    /\ stayed_min = TRUE
    /\ merged = <<>>

\* A call can be made once the previous one has returned to the caller
\* without a panic.
Running == ret.kind # "abort" /\ op.name = "idle"

\* The last call hands its result to the caller: the Spine is left to the
\* next call as it is.
Return ==
    /\ ret.kind # "abort" /\ op.name # "idle"
    /\ op' = Call("idle", <<>>, NoBatch)
    /\ ret' = Returned("ok", <<>>)
    /\ pre' = Fields
    /\ merged' = <<>>
    /\ UNCHANGED <<spine, accepted, stayed_min>>

\* ------------------------------------------------------------ Trace::insert
\* Insert without the assert_eq! on the lower frontier of the batch.
Insert_unchecked(batch) ==
    IF batch.lower # batch.upper
    THEN \E r \in consider_merges(merging, Append(pending, batch),
                                  through_frontier, advance_frontier) :
           /\ upper' = batch.upper
           /\ merging' = r.merging
           /\ pending' = r.pending
           /\ ret' = IF r.panicked THEN Panicked("fuel") ELSE Returned("ok", <<>>)
           /\ merged' = r.log
           /\ accepted' = IF stayed_min THEN accepted + batch.len ELSE 0
           /\ UNCHANGED <<advance_frontier, through_frontier, stayed_min>>
    ELSE IF batch.len = 0
         THEN /\ ret' = Returned("ok", <<>>)
              /\ merged' = <<>>
              /\ UNCHANGED <<spine, accepted, stayed_min>>
         ELSE /\ ret' = Panicked("degenerate")
              /\ merged' = <<>>
              /\ UNCHANGED <<spine, accepted, stayed_min>>

\* Insert pushing degenerate batches like any other.
Insert_degenerate_kept(batch) ==
    IF batch.lower = upper
    THEN \E r \in consider_merges(merging, Append(pending, batch),
                                  through_frontier, advance_frontier) :
           /\ upper' = batch.upper
           /\ merging' = r.merging
           /\ pending' = r.pending
           /\ ret' = IF r.panicked THEN Panicked("fuel") ELSE Returned("ok", <<>>)
           /\ merged' = r.log
           /\ accepted' = IF stayed_min THEN accepted + batch.len ELSE 0
           /\ UNCHANGED <<advance_frontier, through_frontier, stayed_min>>
    ELSE /\ ret' = Panicked("lower")
         /\ merged' = <<>>
         /\ UNCHANGED <<spine, accepted, stayed_min>>

\* Insert asserting only that the batch starts at or before upper.
Insert_dominated(batch) ==
    IF batch.lower # batch.upper
    THEN IF GreaterEqual(upper, batch.lower)
         THEN \E r \in consider_merges(merging, Append(pending, batch),
                                       through_frontier, advance_frontier) :
                /\ upper' = batch.upper
                /\ merging' = r.merging
                /\ pending' = r.pending
                /\ ret' = IF r.panicked THEN Panicked("fuel") ELSE Returned("ok", <<>>)
                /\ merged' = r.log
                /\ accepted' = IF stayed_min THEN accepted + batch.len ELSE 0
                /\ UNCHANGED <<advance_frontier, through_frontier, stayed_min>>
         ELSE /\ ret' = Panicked("lower")
              /\ merged' = <<>>
              /\ UNCHANGED <<spine, accepted, stayed_min>>
    ELSE IF batch.len = 0
         THEN /\ ret' = Returned("ok", <<>>)
              /\ merged' = <<>>
              /\ UNCHANGED <<spine, accepted, stayed_min>>
         ELSE /\ ret' = Panicked("degenerate")
              /\ merged' = <<>>
              /\ UNCHANGED <<spine, accepted, stayed_min>>

\* The body of insert, shared with close.
Insert(batch) ==
    IF batch.lower # batch.upper
    THEN IF batch.lower = upper
         THEN \E r \in consider_merges(merging, Append(pending, batch),
                                       through_frontier, advance_frontier) :
                /\ upper' = batch.upper
                /\ merging' = r.merging
                /\ pending' = r.pending
                /\ ret' = IF r.panicked THEN Panicked("fuel") ELSE Returned("ok", <<>>)
                /\ merged' = r.log
                /\ accepted' = IF stayed_min THEN accepted + batch.len ELSE 0
                /\ UNCHANGED <<advance_frontier, through_frontier, stayed_min>>
         ELSE /\ ret' = Panicked("lower")
              /\ merged' = <<>>
              /\ UNCHANGED <<spine, accepted, stayed_min>>
    ELSE IF batch.len = 0
         THEN /\ ret' = Returned("ok", <<>>)
              /\ merged' = <<>>
              /\ UNCHANGED <<spine, accepted, stayed_min>>
         ELSE /\ ret' = Panicked("degenerate")
              /\ merged' = <<>>
              /\ UNCHANGED <<spine, accepted, stayed_min>>

insert(batch) ==
    /\ Running
    /\ op' = Call("insert", <<>>, batch)
    /\ pre' = Fields
    /\ Insert(batch)

\* ------------------------------------------------------------- Trace::close
\* close building its batch with the current upper as both bounds.
close_degenerate ==
    /\ Running
    /\ op' = Call("close", <<>>, NoBatch)
    /\ pre' = Fields
    /\ IF upper # <<>>
       THEN Insert([lower |-> upper, upper |-> upper, len |-> 0])
       ELSE /\ ret' = Returned("ok", <<>>)
            /\ merged' = <<>>
            /\ UNCHANGED <<spine, accepted, stayed_min>>

close ==
    /\ Running
    /\ op' = Call("close", <<>>, NoBatch)
    /\ pre' = Fields
    /\ IF upper # <<>>
       THEN Insert([lower |-> upper, upper |-> <<>>, len |-> 0])
       ELSE /\ ret' = Returned("ok", <<>>)
            /\ merged' = <<>>
            /\ UNCHANGED <<spine, accepted, stayed_min>>

\* ------------------------------------------------- TraceReader::advance_by
\* advance_by clearing pending only.
advance_by_pending_only(frontier) ==
    /\ Running
    /\ op' = Call("advance_by", frontier, NoBatch)
    /\ pre' = Fields
    /\ advance_frontier' = frontier
    /\ IF Len(frontier) = 0
       THEN pending' = <<>> /\ UNCHANGED merging
       ELSE UNCHANGED <<pending, merging>>
    /\ ret' = Returned("ok", <<>>)
    /\ stayed_min' = (stayed_min /\ frontier = <<minimum>>)
    /\ accepted' = IF stayed_min' THEN accepted ELSE 0
    /\ merged' = <<>>
    /\ UNCHANGED <<through_frontier, upper>>

advance_by(frontier) ==
    /\ Running
    /\ op' = Call("advance_by", frontier, NoBatch)
    /\ pre' = Fields
    /\ advance_frontier' = frontier
    /\ IF Len(frontier) = 0
       THEN pending' = <<>> /\ merging' = <<>>
       ELSE UNCHANGED <<pending, merging>>
    /\ ret' = Returned("ok", <<>>)
    /\ stayed_min' = (stayed_min /\ frontier = <<minimum>>)
    /\ accepted' = IF stayed_min' THEN accepted ELSE 0
    /\ merged' = <<>>
    /\ UNCHANGED <<through_frontier, upper>>

\* ------------------------------------------ TraceReader::distinguish_since
distinguish_since(frontier) ==
    /\ Running
    /\ op' = Call("distinguish_since", frontier, NoBatch)
    /\ pre' = Fields
    /\ through_frontier' = frontier
    /\ \E r \in consider_merges(merging, pending, frontier, advance_frontier) :
            /\ merging' = r.merging
            /\ pending' = r.pending
            /\ ret' = IF r.panicked THEN Panicked("fuel") ELSE Returned("ok", <<>>)
            /\ merged' = r.log
    /\ UNCHANGED <<advance_frontier, upper, accepted, stayed_min>>

\* --------------------------------------------- TraceReader::cursor_through
include_lower(cut, batch) == GreaterEqual(cut, batch.lower)
include_upper(cut, batch) == GreaterEqual(cut, batch.upper)

\* The straddle test without the exemption of a cut equal to the lower
\* frontier of the batch.
Straddles_strict(cut, batch) ==
    include_lower(cut, batch) # include_upper(cut, batch)

\* if include_lower != include_upper && upper != batch.lower() { panic!(..) }
Straddles(cut, batch) ==
    include_lower(cut, batch) # include_upper(cut, batch) /\ cut # batch.lower

NonEmpty(b) == b.len > 0

\* Storage keeping the empty batches of merging as well.
Storage_unfiltered(cut) ==
    LET Within(b) == include_upper(cut, b)
    IN merging \o SelectSeq(pending, Within)

\* The batches the returned cursor reads, which the storage keeps alive.
Storage(cut) ==
    LET Within(b) == include_upper(cut, b)
    IN SelectSeq(merging, NonEmpty) \o SelectSeq(pending, Within)

\* cursor_through looking for a straddled batch before testing the cut
\* against through_frontier.
cursor_through_straddle_first(cut) ==
    /\ Running
    /\ op' = Call("cursor_through", cut, NoBatch)
    /\ pre' = Fields
    /\ ret' = IF Len(advance_frontier) = 0
              THEN Panicked("closed")
              ELSE IF \E i \in DOMAIN pending : Straddles(cut, pending[i])
                   THEN Panicked("straddle")
                   ELSE IF GreaterEqual(cut, through_frontier)
                        THEN Returned("some", Storage(cut))
                        ELSE Returned("none", <<>>)
    /\ merged' = <<>>
    /\ UNCHANGED <<spine, accepted, stayed_min>>

\* cursor_through testing the cut against through_frontier before asserting
\* that advance_frontier is not empty.
cursor_through_late_assert(cut) ==
    /\ Running
    /\ op' = Call("cursor_through", cut, NoBatch)
    /\ pre' = Fields
    /\ ret' = IF GreaterEqual(cut, through_frontier)
              THEN IF Len(advance_frontier) = 0
                   THEN Panicked("closed")
                   ELSE IF \E i \in DOMAIN pending : Straddles(cut, pending[i])
                        THEN Panicked("straddle")
                        ELSE Returned("some", Storage(cut))
              ELSE Returned("none", <<>>)
    /\ merged' = <<>>
    /\ UNCHANGED <<spine, accepted, stayed_min>>

cursor_through(cut) ==
    /\ Running
    /\ op' = Call("cursor_through", cut, NoBatch)
    /\ pre' = Fields
    /\ ret' = IF Len(advance_frontier) = 0
              THEN Panicked("closed")
              ELSE IF GreaterEqual(cut, through_frontier)
                   THEN IF \E i \in DOMAIN pending : Straddles(cut, pending[i])
                        THEN Panicked("straddle")
                        ELSE Returned("some", Storage(cut))
                   ELSE Returned("none", <<>>)
    /\ merged' = <<>>
    /\ UNCHANGED <<spine, accepted, stayed_min>>

\* ------------------------------------------------ TraceReader::map_batches
\* The batches the visitor is called with, in order.
Visited == merging \o pending

map_batches ==
    /\ Running
    /\ op' = Call("map_batches", <<>>, NoBatch)
    /\ pre' = Fields
    /\ ret' = Returned("ok", Visited)
    /\ merged' = <<>>
    /\ UNCHANGED <<spine, accepted, stayed_min>>

\* ------------------------------------------------------------ specification
Next ==
    \/ \E b \in Inputs : insert(b)
    \/ close
    \/ \E f \in Frontiers : advance_by(f)
    \/ \E f \in Frontiers : distinguish_since(f)
    \/ \E f \in Frontiers : cursor_through(f)
    \/ map_batches
    \/ Return

Spec == Init /\ [][Next]_vars

\* Every variable stays within its type.
TypeOK ==
    /\ advance_frontier \in Frontiers
    /\ through_frontier \in Frontiers
    /\ upper \in Frontiers
    /\ \A i \in DOMAIN merging : merging[i].len >= 0 /\ merging[i].lower \in Frontiers
    /\ \A i \in DOMAIN pending : pending[i] \in Batches
    /\ ret.kind \in {"ok", "some", "none", "abort"}

\* ================================================================== claims
NonDegenerate(b) == b.lower # b.upper
Accepted == ret.kind # "abort"
Unchanged == Fields = pre
\* The last call ran the merge pass to its end.
PassRan ==
    /\ ret.kind = "ok"
    /\ \/ op.name = "distinguish_since"
       \/ op.name = "insert" /\ NonDegenerate(op.batch)
       \/ op.name = "close" /\ pre.upper # <<>>

\* C1 as stated: every accepted insert, of a degenerate batch too, has
\* batch.lower equal to the upper the call found.
C1_AnyBatchChains ==
    (op.name = "insert" /\ Accepted) => op.batch.lower = pre.upper

\* C1: every accepted insert of a non-degenerate batch has batch.lower equal
\* to the upper the call found, and an insert of a non-degenerate batch
\* with another lower panics; a degenerate batch is not compared with upper
\* and is accepted when it holds no tuples.
C1_Chaining ==
    op.name = "insert" =>
        IF NonDegenerate(op.batch)
        THEN /\ Accepted => op.batch.lower = pre.upper
             /\ op.batch.lower # pre.upper => ret.kind = "abort" /\ Unchanged
        ELSE Accepted <=> op.batch.len = 0

C1_Witness ==
    /\ op.name = "insert" /\ ret.kind = "ok"
    /\ NonDegenerate(op.batch)
    /\ pre.upper = op.batch.lower /\ upper = op.batch.upper
    /\ pre.upper # <<minimum>>

\* C2: after every merge pass each batch of merging holds at least twice
\* as many tuples as the next one.
C2_Doubling ==
    PassRan => \A i \in 2..Len(merging) : merging[i - 1].len >= 2 * merging[i].len

C2_Witness ==
    /\ PassRan
    /\ Len(merging) >= 2
    /\ Len(merging) + Len(pending) < Len(pre.merging) + Len(pre.pending) + 1
    /\ merging[Len(merging)].len > 0

C4_Close ==
    op.name = "close" =>
        /\ ret.kind = "ok"
        /\ upper = <<>>
        /\ pre.upper = <<>> => Unchanged

C4_Witness ==
    /\ op.name = "close" /\ ret.kind = "ok"
    /\ pre.upper # <<>> /\ upper = <<>>
    /\ Len(pre.merging) + Len(pre.pending) > 0

\* The positions of batch b in the sequence s.
Positions(s, b) == {i \in DOMAIN s : s[i] = b}
\* Every time of the cut is at or beyond some time of the frontier.
Dominated(frontier, cut) ==
    \A i \in DOMAIN cut : \E j \in DOMAIN frontier : frontier[j] <= cut[i]

\* C5: when cursor_through returns a cursor, the batches it reads are the
\* non-empty batches of merging and the pending batches whose upper is
\* dominated by the cut, each once, in the order of the tiers.
C5_CursorBatches ==
    (op.name = "cursor_through" /\ ret.kind = "some") =>
        LET st == ret.storage
            all == merging \o pending
        IN /\ \A i \in DOMAIN merging :
                  Cardinality(Positions(st, merging[i])) = IF merging[i].len > 0 THEN 1 ELSE 0
           /\ \A i \in DOMAIN pending :
                  Cardinality(Positions(st, pending[i])) =
                      IF Dominated(pending[i].upper, op.frontier) THEN 1 ELSE 0
           /\ \A i \in DOMAIN st : Positions(all, st[i]) # {}
           /\ \A i, j \in DOMAIN st : i < j =>
                  \E k \in Positions(all, st[i]) : \E l \in Positions(all, st[j]) : k < l

C5_Witness ==
    /\ op.name = "cursor_through" /\ ret.kind = "some"
    /\ \E i \in DOMAIN merging : merging[i].len = 0
    /\ \E i \in DOMAIN pending :
           pending[i].len > 0 /\ Positions(ret.storage, pending[i]) # {}
    /\ \E i \in DOMAIN pending : Positions(ret.storage, pending[i]) = {}

\* C6: with a non-empty advance_frontier, cursor_through returns no result
\* exactly when some time of the cut is not at or beyond any time of
\* through_frontier, also when the cut falls inside a pending batch, and
\* then it changes no field.
C6_NoResult ==
    (op.name = "cursor_through" /\ pre.advance_frontier # <<>>) =>
        /\ ret.kind = "none" <=> ~Dominated(through_frontier, op.frontier)
        /\ ret.kind = "none" => Unchanged

C6_Witness ==
    /\ op.name = "cursor_through" /\ pre.advance_frontier # <<>>
    /\ ret.kind = "none"
    /\ \E i \in DOMAIN pending :
           /\ Dominated(pending[i].lower, op.frontier)
           /\ ~Dominated(pending[i].upper, op.frontier)
           /\ pending[i].lower # op.frontier

\* Batch b is taken by one of its bounds and left by the other, and its
\* lower is not the cut.
Straddled(b, cut) ==
    /\ Dominated(b.lower, cut) # Dominated(b.upper, cut)
    /\ b.lower # cut
\* The cut is the upper frontier of a pending batch or of the Spine.
Boundary(cut) == cut = upper \/ \E i \in DOMAIN pending : cut = pending[i].upper

\* C7 as stated: for every cut at or beyond through_frontier, cursor_through
\* panics exactly when the cut straddles a pending batch, and never at a
\* batch boundary.
C7_AbortOnlyOnStraddle ==
    (op.name = "cursor_through" /\ Dominated(through_frontier, op.frontier)) =>
        /\ ret.kind = "abort" <=> \E i \in DOMAIN pending : Straddled(pending[i], op.frontier)
        /\ Boundary(op.frontier) => ret.kind # "abort"

\* C7: with a non-empty advance_frontier and a cut at or beyond
\* through_frontier, cursor_through panics exactly when the cut straddles a
\* pending batch; it never panics at a batch boundary, and a pending batch
\* whose lower is the cut is not read.
C7_Straddle ==
    (/\ op.name = "cursor_through"
     /\ pre.advance_frontier # <<>>
     /\ Dominated(through_frontier, op.frontier)) =>
        /\ ret.kind = "abort" <=> \E i \in DOMAIN pending : Straddled(pending[i], op.frontier)
        /\ Boundary(op.frontier) => ret.kind = "some"
        /\ \A i \in DOMAIN pending :
              (pending[i].lower = op.frontier /\ ret.kind = "some") =>
                  Positions(ret.storage, pending[i]) = {}

C7_Witness ==
    /\ op.name = "cursor_through" /\ ret.kind = "abort"
    /\ pre.advance_frontier # <<>>
    /\ Dominated(through_frontier, op.frontier)
    /\ \E i \in DOMAIN pending : Straddled(pending[i], op.frontier)
    /\ \E i \in DOMAIN pending : ~Straddled(pending[i], op.frontier)

RECURSIVE Tuples(_)
\* The number of tuples held by the batches of s.
Tuples(s) == IF s = <<>> THEN 0 ELSE s[1].len + Tuples(Tail(s))

\* C8: as long as advance_frontier has stayed at the minimum, the tiers hold
\* as many tuples as the accepted batches brought, and a cursor through the
\* Spine's upper reads that many.
C8_Content ==
    (stayed_min /\ ret.kind # "abort") =>
        /\ Tuples(merging) + Tuples(pending) = accepted
        /\ (op.name = "cursor_through" /\ op.frontier = upper /\ ret.kind = "some") =>
               Tuples(ret.storage) = accepted

C8_Witness ==
    /\ stayed_min
    /\ op.name = "cursor_through" /\ op.frontier = upper /\ ret.kind = "some"
    /\ accepted > MaxLen
    /\ Len(merging) = 1 /\ merging[1].len = accepted

\* C9: the insert of a degenerate batch changes no field; it is accepted
\* when the batch holds no tuples and panics when it holds some.
C9_Degenerate ==
    (op.name = "insert" /\ ~NonDegenerate(op.batch)) =>
        /\ Unchanged
        /\ ret.kind = IF op.batch.len = 0 THEN "ok" ELSE "abort"

C9_Witness ==
    /\ op.name = "insert" /\ ret.kind = "ok"
    /\ op.batch.lower = op.batch.upper /\ op.batch.len = 0
    /\ op.batch.lower = upper
    /\ pending # <<>> /\ merging # <<>>

\* C10: advance_by with the empty frontier leaves both tiers empty, so that
\* map_batches visits nothing; with a non-empty frontier it changes
\* advance_frontier only.
C10_AdvanceBy ==
    /\ op.name = "advance_by" =>
          /\ advance_frontier = op.frontier
          /\ IF op.frontier = <<>>
             THEN merging = <<>> /\ pending = <<>> /\ Visited = <<>>
             ELSE merging = pre.merging /\ pending = pre.pending
          /\ through_frontier = pre.through_frontier /\ upper = pre.upper
    /\ (op.name = "map_batches" /\ pre.advance_frontier = <<>>
          /\ pre.merging = <<>> /\ pre.pending = <<>>) => ret.storage = <<>>

C10_Witness ==
    /\ op.name = "advance_by" /\ op.frontier = <<>>
    /\ pre.merging # <<>> /\ pre.pending # <<>>
    /\ merging = <<>> /\ pending = <<>>

\* C11: no call moves advance_frontier or through_frontier backwards: after
\* advance_by(f) or distinguish_since(f) every time of the new frontier is at
\* or beyond some time of the one the call found.
C11_FrontiersMonotone ==
    /\ op.name = "advance_by" => Dominated(pre.advance_frontier, advance_frontier)
    /\ op.name = "distinguish_since" =>
            Dominated(pre.through_frontier, through_frontier)

\* C12: the upper frontier of every batch of merging is dominated by
\* through_frontier.
C12_MergingBelowThrough ==
    \A i \in DOMAIN merging : Dominated(merging[i].upper, through_frontier)

RECURSIVE Log2(_)
\* The integer part of the binary logarithm of n >= 1.
Log2(n) == IF n <= 1 THEN 0 ELSE 1 + Log2(n \div 2)
Max(a, b) == IF a >= b THEN a ELSE b

\* C13: after every merge pass merging has at most max(1, floor(log2(N + 1)))
\* batches, N being the number of tuples they hold.
C13_LogDepth ==
    PassRan => Len(merging) <= Max(1, Log2(Tuples(merging) + 1))

\* The last call aborted in the merge pass, on the fuel assertion.
FuelAbort == ret.kind = "abort" /\ ret.why = "fuel"

C15_EmptyAdvanceAborts ==
    op.name = "cursor_through" =>
        /\ Len(advance_frontier) = 0 =>
                ret = Panicked("closed") /\ Unchanged
        /\ Len(advance_frontier) > 0 => ret.why # "closed"
C15_Witness ==
    /\ op.name = "cursor_through"
    /\ Len(advance_frontier) = 0
    /\ ~GreaterEqual(op.frontier, through_frontier)
    /\ Len(pending) > 0
    /\ ret = Panicked("closed")

\* C16: a merge of the pass is handed advance_frontier exactly when it is a
\* cascade merge that popped the only two entries of merging; every other
\* cascade merge and every pre-absorption merge is handed no frontier, so a
\* consolidating merge always pushes its result as the sole entry.
C16_FrontierAtBottom ==
    \A i \in DOMAIN merged :
        LET e == merged[i]
        IN IF e.loop = "cascade" /\ e.below = 0
           THEN e.frontier = Some(advance_frontier)
           ELSE e.frontier = None
C16_Witness ==
    /\ PassRan
    /\ \E i \in DOMAIN merged :
            /\ merged[i].loop = "pre" /\ merged[i].below = 0
            /\ merged[i].frontier = None
    /\ \E i \in DOMAIN merged :
            /\ merged[i].loop = "cascade" /\ merged[i].below = 0
            /\ merged[i].frontier = Some(advance_frontier)
    /\ Len(merging) = 1

\* The sequence s is the end of the sequence t.
Suffix(s, t) ==
    Len(s) <= Len(t) /\ s = SubSeq(t, Len(t) - Len(s) + 1, Len(t))

\* The pending batches the last call started its pass with.
Queued ==
    IF op.name = "distinguish_since" THEN pre.pending
    ELSE Append(pre.pending,
                IF op.name = "close"
                THEN [lower |-> pre.upper, upper |-> <<>>, len |-> 0]
                ELSE op.batch)

\* C17: when insert or distinguish_since returns, no batch left in pending
\* has its upper dominated by through_frontier, and pending is empty when
\* through_frontier is the empty frontier; the pass took the batches it moved
\* from the front of pending, oldest first.
C17_Fixpoint ==
    /\ ((op.name = "insert" \/ op.name = "distinguish_since") /\ ret.kind = "ok") =>
            /\ \A i \in DOMAIN pending :
                    ~GreaterEqual(through_frontier, pending[i].upper)
            /\ through_frontier = <<>> => pending = <<>>
    /\ PassRan => Suffix(pending, Queued)
C17_Witness ==
    /\ op.name = "distinguish_since" /\ ret.kind = "ok"
    /\ Len(pre.pending) = Len(pending) + 2
    /\ Len(pending) > 0
    /\ GreaterEqual(through_frontier, pre.pending[2].upper)

\* C18: merging followed by pending is a contiguous chain of time ranges,
\* each batch starting where the one before it ends and the last one ending
\* at the Spine's upper; every merge takes two adjacent batches and yields
\* one from the lower of the older to the upper of the newer.
C18_Chain ==
    /\ \A i \in DOMAIN Visited : i > 1 => Visited[i].lower = Visited[i - 1].upper
    /\ Len(Visited) > 0 => Visited[Len(Visited)].upper = upper
    /\ \A i \in DOMAIN merged :
            /\ merged[i].older.upper = merged[i].newer.lower
            /\ merged[i].out.lower = merged[i].older.lower
            /\ merged[i].out.upper = merged[i].newer.upper
C18_Witness ==
    /\ PassRan
    /\ Len(merged) > 0
    /\ Len(merging) > 0
    /\ Len(pending) > 0
    /\ merging[Len(merging)] = merged[Len(merged)].out

\* C19: whenever advance_frontier is the empty frontier, merging and pending
\* are both empty.
C19_EmptyAdvanceEmptyTiers ==
    advance_frontier = <<>> => merging = <<>> /\ pending = <<>>

\* C20: the merge pass started by insert, close or distinguish_since returns
\* after at most as many merges as the batches it started with in pending
\* and merging: a batch moved from pending to merging leaves their number as
\* it is and every merge takes one off.
C20_PassBound ==
    PassRan =>
        /\ Len(merged) <= Len(Queued) + Len(pre.merging)
        /\ Len(merged) + Len(pending) + Len(merging) = Len(Queued) + Len(pre.merging)
        /\ Len(pending) <= Len(Queued)
C20_Witness ==
    /\ PassRan
    /\ Len(merged) >= 2
    /\ Len(Queued) >= 2
    /\ Len(pre.merging) >= 1
    /\ Len(pending) = 0 /\ Len(merging) = 1

====
